---------------------------- MODULE Spec2Model ----------------------------
(***************************************************************************)
(* Badminton pairings: the match scheduler and the matches page.           *)
(*                                                                         *)
(* The repository holds two schedulers.  The "general" one                 *)
(* (src/unnamed/part_002) keeps a module-level round counter and a         *)
(* module-level map of player histories, selects the least played          *)
(* players and searches each court's arrangement at random.  The "fixed"   *)
(* one (src/unnamed/part_001) is a pure function of the roster, the court  *)
(* count and the list of previous matches, with one branch per roster      *)
(* size 4..8.  MatchesPage.tsx drives rounds: complete, undo, next round.  *)
(*                                                                         *)
(* A player is its position in the roster (1..n); a player's id is that    *)
(* number.  A match id (crypto.randomUUID) is a number never used before.  *)
(* Math.random is a nondeterministic choice.                               *)
(***************************************************************************)
EXTENDS Integers, Sequences, FiniteSets, TLC

\* ------------------------------------------------------------- bounds
\* Largest roster entered in the player setup (matches page specification).
MaxPlayers == 5
\* Rounds generated in one session of the matches page specification.
MaxRounds == 2
\* Largest roster handed to the schedulers (scheduler specification).
MaxSchedPlayers == 8
\* Previous matches handed to the fixed policy, for rosters below 8 and of 8.
MaxHistory == 2
MaxHistory8 == 1
\* Largest roster whose previous matches are any 2 to 4 players; a larger
\* roster's previous matches are of players next to each other in the roster.
MaxFreeMenu == 7
\* Rounds the general scheduler generates on one court, and on two full courts.
MaxSchedRounds == 2
MaxTwoCourtRounds == 1
\* Largest roster and most matches recorded (ledger specification).
MaxLedgerPlayers == 5
MaxRecorded == 2
MaxSessionPlayers == 5
MaxStatCount == 1
MaxLeftOut == 1
MaxRoundPlayers == 5
MaxEarlier == 1
MaxBalanceRounds == 24

\* -------------------------------------------------- program constants
MinRoster == 4
PlayersPerCourt == 4
MaxTrials == 100
Infinity == 1000000

Sides == {"left", "right"}
Courts == {1, 2}

\* null / undefined
None == [none |-> TRUE]
NotCalled == <<None>>

VARIABLES
    players,              \* roster size n; the roster is <<1, ..., n>>
    numberOfCourts,
    currentRound,         \* part_002: let currentRound
    hist,                 \* part_002: globalPlayerHistories, in insertion order;
                          \* in SpecRounds the participation counts of part_001
    session,              \* Session.matches held by MatchesPage, or None
    matchStates,          \* MatchesPage state
    playerStats,          \* MatchesPage state
    allCompletedMatches,  \* MatchesPage state
    lastCompletedMatch,   \* MatchesPage state
    uiRound,              \* MatchesPage state: currentRound
    error,                \* PlayerSetup state: error
    lastEvent,            \* history: the handler that ran last and how it ended
    folds,                \* history: folds[id] = times match id was applied to hist
    undone,               \* history: ids of matches undone and not completed again
    pre,                  \* history: the state before the last handleMatchComplete,
                          \* second generateSession or unrecording
    variant,              \* the scheduler called: "general" or "fixed"
    idKind,               \* how player ids are written: "plain" or "uuid"
    played,               \* the matches handed to the scheduler as played
    returned,             \* the matches the scheduler returned last, or NotCalled
    available,            \* the players argument of the last generateNextRound
    pairsMade,            \* part_001: finalPairs of the last 8-player call
    sHist,                \* findOptimalPairing: histories
    sI,                   \* findOptimalPairing: trials done
    sBest,                \* findOptimalPairing: bestPairing
    sMin,                 \* findOptimalPairing: minSharedPartnerships
    sPc,                  \* findOptimalPairing: "loop" or "returned"
    sDrawn                \* history: the shared-partnership counts drawn so far

uiVars == <<session, matchStates, playerStats, allCompletedMatches,
            lastCompletedMatch, uiRound, folds, undone, pre>>
schedVars == <<variant, idKind, played, returned, available,
               pairsMade>>
searchVars == <<sHist, sI, sBest, sMin, sPc, sDrawn>>

vars == <<players, numberOfCourts, currentRound, hist, error, lastEvent,
          uiVars, schedVars, searchVars>>

\* ------------------------------------------------------------ helpers
Range(s) == {s[i] : i \in DOMAIN s}

Roster(n) == [i \in 1..n |-> i]

Swap(s, i, j) == [s EXCEPT ![i] = s[j], ![j] = s[i]]

\* The Fisher-Yates loop from index i down: every j in 0..i can be drawn.
RECURSIVE FisherYates(_, _)
FisherYates(s, i) ==
    IF i <= 1 THEN {s}
    ELSE UNION {FisherYates(Swap(s, i, j), i - 1) : j \in 1..i}

\* Every sequence the in-place shuffle can leave.
shuffleArray(s) == FisherYates(s, Len(s))

\* Array.prototype.sort with comparator key[a] - key[b]: stable.
RECURSIVE InsertStable(_, _, _)
InsertStable(sorted, x, key) ==
    IF sorted = <<>> THEN <<x>>
    ELSE IF key[x] <= key[Head(sorted)] THEN <<x>> \o sorted
    ELSE <<Head(sorted)>> \o InsertStable(Tail(sorted), x, key)

RECURSIVE SortReversed(_, _)
SortReversed(s, key) ==
    IF s = <<>> THEN <<>>
    ELSE InsertStable(SortReversed(Tail(s), key), Head(s), key)

\* Insert from the last element to the first, each before its equals: stable.
StableSort(s, key) == SortReversed(s, key)

Slice(s, from, to) ==
    IF from > Len(s) THEN <<>>
    ELSE SubSeq(s, from, IF to > Len(s) THEN Len(s) ELSE to)

\* ------------------------------------------- part_002: player histories
createPlayerHistory == [gamesPlayed |-> 0, partners |-> {}, opponents |-> {}]

\* 0-based positions [0, mid) are the first side, [mid, n) the second.
SideOf(match, i) == IF 2 * (i - 1) < Len(match.players) THEN 1 ELSE 2

\* With an odd number of players midPoint is fractional: the opponent loop
\* of the first player starts at index midPoint, where match.players holds
\* nothing, and reading the id of undefined throws a TypeError.
updateThrows(match) == Len(match.players) % 2 = 1

\* The histories the TypeError leaves behind: every player's gamesPlayed is
\* incremented, and the first player has got its partners.
updateInterrupted(h, match) ==
    LET ps == match.players
    IN  [p \in DOMAIN h |->
            IF p \notin Range(ps) THEN h[p]
            ELSE [h[p] EXCEPT
                    !.gamesPlayed = @ + 1,
                    !.partners = IF p = ps[1]
                                 THEN @ \cup {ps[j] : j \in 2..((Len(ps) + 1) \div 2)}
                                 ELSE @]]

updatePlayerHistories(h, match) ==
    LET ps == match.players
        pos(p) == CHOOSE i \in DOMAIN ps : ps[i] = p
    IN  IF updateThrows(match) THEN updateInterrupted(h, match) ELSE
        [p \in DOMAIN h |->
            IF p \notin Range(ps) THEN h[p]
            ELSE [gamesPlayed |-> h[p].gamesPlayed + 1,
                  partners |-> h[p].partners \cup
                      {ps[j] : j \in {k \in DOMAIN ps :
                          k # pos(p) /\ SideOf(match, k) = SideOf(match, pos(p))}},
                  opponents |-> h[p].opponents \cup
                      {ps[j] : j \in {k \in DOMAIN ps :
                          SideOf(match, k) # SideOf(match, pos(p))}}]]

RECURSIVE FoldHistories(_, _)
FoldHistories(h, matches) ==
    IF matches = <<>> THEN h
    ELSE IF updateThrows(Head(matches))
    THEN updatePlayerHistories(h, Head(matches))
    ELSE FoldHistories(updatePlayerHistories(h, Head(matches)), Tail(matches))

\* A faulty selection that takes the first entries without sorting.
findFirstPlayers(h, count) ==
    Slice([i \in 1..Cardinality(DOMAIN h) |-> i], 1, count)

findLeastPlayedPlayers(h, count) ==
    LET values == [i \in 1..Cardinality(DOMAIN h) |-> i]
        key == [p \in DOMAIN h |-> h[p].gamesPlayed]
    IN  Slice(StableSort(values, key), 1, count)

\* Previous partnerships inside each half of an arrangement.
SharedPartnerships(shuffled, h) ==
    LET n == Len(shuffled)
        firstHalf == {i \in 1..n : 2 * (i - 1) < n}
        sameHalf(j, k) == (j \in firstHalf) = (k \in firstHalf)
    IN  Cardinality({jk \in (1..n) \X (1..n) :
            /\ jk[1] < jk[2]
            /\ sameHalf(jk[1], jk[2])
            /\ shuffled[jk[2]] \in h[shuffled[jk[1]]].partners})

\* A faulty trial that keeps the arrangement drawn last.
TrialKeepsLast(best, min, shuffled, h) ==
    LET shared == SharedPartnerships(shuffled, h)
    IN  [best |-> shuffled, min |-> IF shared < min THEN shared ELSE min]

\* One trial of the search loop on the pair (bestPairing, minSharedPartnerships).
Trial(best, min, shuffled, h) ==
    LET shared == SharedPartnerships(shuffled, h)
    IN  IF shared < min THEN [best |-> shuffled, min |-> shared]
        ELSE [best |-> best, min |-> min]

\* A list rearranged: position i takes the element at position a[i].
Arranged(s, a) == [i \in DOMAIN s |-> s[a[i]]]

Arrangements4 == shuffleArray(Roster(PlayersPerCourt))

\* What the search returns: the arrangement drawn by the trial whose result is
\* kept.  The first trial always replaces the initial copy of the input (its
\* count is below Infinity), and every arrangement can be the kept one: when
\* it is drawn in every trial, or, with a count of 0, when it is drawn once.
\* The loop itself is followed trial by trial in SearchTrial.
findOptimalPairing(courtPlayers, h, kept) == Arranged(courtPlayers, kept)

IsAscending(s) == \A i \in 1..(Len(s) - 1) : s[i] < s[i + 1]

\* A faulty slicing that hands every court the first four players.
CourtSliceFirst(shuffled, court) == Slice(shuffled, 1, PlayersPerCourt)

CourtSlice(shuffled, court) ==
    Slice(shuffled, (court - 1) * PlayersPerCourt + 1, court * PlayersPerCourt)

\* The members of a set of players in ascending order.
RECURSIVE AscendingSeq(_)
AscendingSeq(S) ==
    IF S = {} THEN <<>>
    ELSE LET least == CHOOSE p \in S : \A q \in S : p <= q
         IN  <<least>> \o AscendingSeq(S \ {least})

\* The shuffled selection, one order per assignment of players to courts.
\* The shuffle can leave every permutation, so every assignment occurs; the
\* order inside a court's slice is discarded by findOptimalPairing, whose
\* trials shuffle the slice again, and is listed ascending here.
RECURSIVE CourtAssignments(_, _)
CourtAssignments(S, courts) ==
    IF courts = 0 THEN {<<>>}
    ELSE UNION {{AscendingSeq(A) \o rest :
                    rest \in CourtAssignments(S \ A, courts - 1)} :
                A \in {B \in SUBSET S : Cardinality(B) = PlayersPerCourt}}

shuffledPlayers(selected, courts) == CourtAssignments(Range(selected), courts)

NoDraw == [order |-> <<>>, kept |-> <<>>, side |-> <<>>]

\* What Math.random decides in one generateRound: the shuffled order, and per
\* court the arrangement the search keeps and the side.
RoundDraws(h, courts) ==
    LET playersNeeded == courts * PlayersPerCourt
        selectedPlayers == findLeastPlayedPlayers(h, playersNeeded)
    IN  IF Len(selectedPlayers) < playersNeeded THEN {NoDraw}
        ELSE [order : shuffledPlayers(selectedPlayers, courts),
              kept : [1..courts -> Arrangements4],
              side : [1..courts -> Sides]]

\* The court loop of generateRound.
RECURSIVE CourtLoop(_, _, _, _, _, _)
CourtLoop(draw, court, courts, h, roundMatches, base) ==
    IF court > courts THEN [matches |-> roundMatches, hist |-> h]
    ELSE LET courtPlayers == CourtSlice(draw.order, court)
             optimizedPlayers ==
                 findOptimalPairing(courtPlayers, h, draw.kept[court])
             match == [id |-> base + court, players |-> optimizedPlayers,
                       court |-> court, side |-> draw.side[court]]
         IN  CourtLoop(draw, court + 1, courts,
                       updatePlayerHistories(h, match),
                       Append(roundMatches, match), base)

\* generateRound; no draw is made when it returns early for want of players.
generateRound(h, courts, base, draw) ==
    IF draw = NoDraw
    THEN [matches |-> <<>>, hist |-> h]
    ELSE CourtLoop(draw, 1, courts, h, <<>>, base)

\* A faulty validation that lets a roster of 3 through.
SessionRejectedBelow3(n) == n < MinRoster - 1

\* generateSession's validation.
SessionRejected(n) == n < MinRoster

\* generateSession after validation: reset, initialise, fold previousMatches
\* (the default []), generate round 1.
NewHistories(n) == [p \in 1..n |-> createPlayerHistory]

generateSessionGeneral(n, courts, previousMatches, draw) ==
    generateRound(FoldHistories(NewHistories(n), previousMatches), courts, 0,
                  draw)

\* generateNextRound: currentRound++.
incrementRoundSkipped(r) == r

incrementRound(r) == r + 1

\* generateNextRound: fold completedMatches, then generate.
generateNextRound(h, courts, completedMatches, base, draw) ==
    generateRound(FoldHistories(h, completedMatches), courts, base, draw)

\* ------------------------------------------ part_001: the fixed policy
\* A player id as the list of its parts between '-' characters.  A plain id
\* ("A") has one part; an id made by crypto.randomUUID has several, modelled
\* by two: the player's own first part and a second part no plain id equals.
IdParts(p, idStyle) == IF idStyle = "uuid" THEN <<p, 0 - p>> ELSE <<p>>

\* [a, b].sort(): ids differ in their first part.
SortIds(a, b) == IF a[1] <= b[1] THEN <<a, b>> ELSE <<b, a>>

\* [a, b].sort().join('-'), as the list of parts of the joined string.
PairingKey(a, b) == SortIds(a, b)[1] \o SortIds(a, b)[2]

\* addPairing on the map, kept as its entries in insertion order.
addPairing(map, id1, id2) ==
    LET pairingKey == PairingKey(id1, id2)
    IN  IF \E k \in DOMAIN map : map[k].key = pairingKey
        THEN [k \in DOMAIN map |->
                 IF map[k].key = pairingKey
                 THEN [map[k] EXCEPT !.count = @ + 1] ELSE map[k]]
        ELSE Append(map, [key |-> pairingKey, count |-> 1])

RECURSIVE AddPairings(_, _, _)
AddPairings(map, pairs, idStyle) ==
    IF pairs = <<>> THEN map
    ELSE AddPairings(addPairing(map, IdParts(Head(pairs)[1], idStyle),
                                IdParts(Head(pairs)[2], idStyle)),
                     Tail(pairs), idStyle)

\* The pairs of one 4-player match in the order getPairings adds them.
MatchPairs(ps) ==
    <<  <<ps[1], ps[2]>>, <<ps[3], ps[4]>>,
        <<ps[1], ps[3]>>, <<ps[1], ps[4]>>, <<ps[2], ps[3]>>, <<ps[2], ps[4]>> >>

RECURSIVE PairingMap(_, _, _)
PairingMap(map, matches, idStyle) ==
    IF matches = <<>> THEN map
    ELSE PairingMap(IF Len(Head(matches).players) = 4
                    THEN AddPairings(map, MatchPairs(Head(matches).players), idStyle)
                    ELSE map,
                    Tail(matches), idStyle)

\* key.split('-') and the destructuring of its first two parts (a part that
\* is missing is undefined; keys hold two parts or more).
getPairings(matches, idStyle) ==
    LET map == PairingMap(<<>>, matches, idStyle)
    IN  [k \in DOMAIN map |->
            [player1Id |-> <<map[k].key[1]>>, player2Id |-> <<map[k].key[2]>>,
             count |-> map[k].count]]

\* The history fold of generateDoublesMatches on one participation entry.
ParticipationOf(p, previousMatches) ==
    LET with == {k \in DOMAIN previousMatches :
                    p \in Range(previousMatches[k].players)}
        doubles == {k \in with : Len(previousMatches[k].players) = 4}
        team(k) == LET ps == previousMatches[k].players
                   IN  IF p \in {ps[1], ps[2]} THEN {ps[1], ps[2]}
                       ELSE {ps[3], ps[4]}
    IN  [doublesMatchesPlayed |-> Cardinality(doubles),
         singlesMatchesPlayed |-> Cardinality(with \ doubles),
         partners |-> UNION {team(k) \ {p} : k \in doubles},
         opponents |-> UNION {Range(previousMatches[k].players) \ team(k) :
                                k \in doubles}]

ParticipationMap(n, previousMatches) ==
    [p \in 1..n |-> ParticipationOf(p, previousMatches)]

TotalMatches(part, p) ==
    part[p].doublesMatchesPlayed + part[p].singlesMatchesPlayed

\* pairings.find(...)?.count || 0: how often the two have played together,
\* as calculatePairScore reads it from the list getPairings returned.
pairingCount(player1, player2, pairings, idStyle) ==
    LET pairingKey == PairingKey(IdParts(player1, idStyle),
                                 IdParts(player2, idStyle))
        found == {k \in DOMAIN pairings :
                     PairingKey(pairings[k].player1Id, pairings[k].player2Id)
                         = pairingKey}
    IN  IF found = {} THEN 0
        ELSE pairings[CHOOSE k \in found : \A j \in found : k <= j].count

calculatePairScore(player1, player2, pairings, part, idStyle) ==
    pairingCount(player1, player2, pairings, idStyle) * 10
        + TotalMatches(part, player1) + TotalMatches(part, player2)

\* allPossiblePairs, in the order of the two nested loops.
RECURSIVE PairsFrom(_, _, _)
PairsFrom(i, j, n) ==
    IF i >= n THEN <<>>
    ELSE IF j > n THEN PairsFrom(i + 1, i + 2, n)
    ELSE <<  <<i, j>>  >> \o PairsFrom(i, j + 1, n)

allPossiblePairs(n) == PairsFrom(1, 2, n)

\* Step 5: first fit over selectedPairs, the loop left at 4 pairs.
RECURSIVE PickPairs(_, _)
PickPairs(selectedPairs, finalPairs) ==
    IF selectedPairs = <<>> \/ Len(finalPairs) = 4 THEN finalPairs
    ELSE LET pair == Head(selectedPairs)
             used == UNION {Range(finalPairs[k]) : k \in DOMAIN finalPairs}
         IN  PickPairs(Tail(selectedPairs),
                       IF pair[1] \notin used /\ pair[2] \notin used
                       THEN Append(finalPairs, pair) ELSE finalPairs)

\* Consecutive pairs of a shuffled list appended until 4 pairs are held.
RECURSIVE PairUp(_, _, _)
PairUp(shuffled, i, finalPairs) ==
    IF i + 1 > Len(shuffled) \/ Len(finalPairs) = 4 THEN finalPairs
    ELSE PairUp(shuffled, i + 2,
                Append(finalPairs, <<shuffled[i], shuffled[i + 1]>>))

\* The pairs scanned by step 5: the 4 best of the sorted list.
selectedPairs(scoredPairs) == Slice(scoredPairs, 1, 4)

\* A list built front to back from its entries.
RECURSIVE Tabulate(_, _)
Tabulate(F(_), k) == IF k = 0 THEN <<>> ELSE Append(Tabulate(F, k - 1), F(k))

\* Steps 1-3 for 8 players: the pairs scored and sorted.
scoredPairs(n, score) ==
    LET all == allPossiblePairs(n)
        pairScore == Tabulate(LAMBDA k : score[all[k][1]][all[k][2]], Len(all))
        order == StableSort([k \in DOMAIN all |-> k], pairScore)
    IN  [k \in DOMAIN all |-> all[order[k]]]

\* Steps 4-5: the first fit over the pairs selected.
greedyPairs(n, score) == PickPairs(selectedPairs(scoredPairs(n, score)), <<>>)

\* What generateDoublesMatches derives from the history alone: the
\* participation map, the pairing counts, and for 8 players the score
\* calculatePairScore gives each pair and the first fit over the best pairs.
Scoring(n, previousMatches, idStyle) ==
    LET part == Tabulate(LAMBDA p : ParticipationOf(p, previousMatches), n)
        pairings == getPairings(previousMatches, idStyle)
        row(a) == Tabulate(LAMBDA b2 : IF a = b2 THEN 0
                                      ELSE calculatePairScore(a, b2, pairings,
                                                              part, idStyle), n)
        score == IF n = 8 THEN Tabulate(row, n) ELSE <<>>
    IN  [part |-> part, pairings |-> pairings, score |-> score,
         greedy |-> IF n = 8 THEN greedyPairs(n, score) ELSE <<>>]

remainingPlayers(n, finalPairs) ==
    LET used == UNION {Range(finalPairs[k]) : k \in DOMAIN finalPairs}
    IN  SelectSeq(Roster(n), LAMBDA p : p \notin used)

NoShuffle == <<>>

\* The outcomes of the shuffle of remainingPlayers, when the code makes it.
FirstShuffles(n, sc) ==
    LET remaining == remainingPlayers(n, sc.greedy)
    IN  IF n = 8 /\ Len(sc.greedy) < 4 /\ Len(remaining) >= 2
        THEN shuffleArray(remaining) ELSE {NoShuffle}

afterRandom(n, sc, first) ==
    IF first = NoShuffle THEN sc.greedy ELSE PairUp(first, 1, sc.greedy)

\* The outcomes of the shuffle of the whole roster, when the code makes it.
SecondShuffles(n, sc, first) ==
    IF n = 8 /\ Len(afterRandom(n, sc, first)) < 4
    THEN shuffleArray(Roster(n)) ELSE {NoShuffle}

\* The final pairs after the two fallbacks.
finalPairsOf(n, sc, first, second) ==
    IF second = NoShuffle THEN afterRandom(n, sc, first)
    ELSE PairUp(second, 1, <<>>)

\* A faulty grouping that puts the first pair on both courts.
courtsOfRepeated(fp, sc) == <<fp[1] \o fp[2], fp[1] \o fp[3]>>

\* Step 6: the three option scores and the courts chosen.
courtsOf(fp, sc) ==
    LET option1Score == sc.score[fp[1][1]][fp[1][2]] + sc.score[fp[2][1]][fp[2][2]]
                      + sc.score[fp[3][1]][fp[3][2]] + sc.score[fp[4][1]][fp[4][2]]
        option2Score == sc.score[fp[1][1]][fp[3][1]] + sc.score[fp[1][2]][fp[3][2]]
                      + sc.score[fp[2][1]][fp[4][1]] + sc.score[fp[2][2]][fp[4][2]]
        option3Score == sc.score[fp[1][1]][fp[4][1]] + sc.score[fp[1][2]][fp[4][2]]
                      + sc.score[fp[2][1]][fp[3][1]] + sc.score[fp[2][2]][fp[3][2]]
    IN  IF option1Score <= option2Score /\ option1Score <= option3Score
        THEN <<fp[1] \o fp[2], fp[3] \o fp[4]>>
        ELSE IF option2Score <= option1Score /\ option2Score <= option3Score
        THEN <<fp[1] \o fp[3], fp[2] \o fp[4]>>
        ELSE <<fp[1] \o fp[4], fp[2] \o fp[3]>>

NewMatch(id, ps, court) ==
    [id |-> id, players |-> ps, court |-> court, side |-> "left"]

\* A faulty ranking that keeps the roster order.
sortedPlayersUnsorted(n, part) == Roster(n)

\* sortedPlayers: the roster by total participation, least played first.
sortedPlayers(n, part) ==
    StableSort(Roster(n), [p \in 1..n |-> TotalMatches(part, p)])

\* A faulty ranking of the players left for court 2 that keeps their order.
singlesPlayersUnsorted(sorted, part) == Slice(sorted, 5, Len(sorted))

\* sortedPlayers.slice(4) by singles played.
singlesPlayers(sorted, part) ==
    StableSort(Slice(sorted, 5, Len(sorted)),
               [p \in DOMAIN part |-> part[p].singlesMatchesPlayed])

\* The list of matches generateDoublesMatches returns when the two shuffles
\* come out as first and second.
generateDoublesMatches(n, courts, sc, base, first, second) ==
    LET sorted == sortedPlayers(n, sc.part)
        doubles == NewMatch(base + 1, Slice(sorted, 1, 4), 1)
        singles == singlesPlayers(sorted, sc.part)
    IN  IF n \in {4, 5} THEN <<doubles>>
        ELSE IF n \in {6, 7} THEN
            IF courts = 1 THEN <<doubles>>
            ELSE <<doubles, NewMatch(base + 2, Slice(singles, 1, n - 4), 2)>>
        ELSE IF n = 8 THEN
            LET cs == courtsOf(finalPairsOf(n, sc, first, second), sc)
            IN  <<NewMatch(base + 1, cs[1], 1), NewMatch(base + 2, cs[2], 2)>>
        ELSE <<>>

\* ------------------------------------------------ MatchesPage.tsx state
\* The effect on [session]: a state per session match, existing states kept.
MergeMatchStates(states, matches, round) ==
    [i \in 1..Len(matches) |->
        IF \E k \in DOMAIN states : states[k].match.id = matches[i].id
        THEN states[CHOOSE k \in DOMAIN states : states[k].match.id = matches[i].id]
        ELSE [match |-> matches[i], completed |-> FALSE, round |-> round]]

InitialStats(n) ==
    [p \in 1..n |-> [doublesMatchesPlayed |-> 0, singlesMatchesPlayed |-> 0]]

IsDoubles(match) == Len(match.players) = 4

\* handleMatchComplete's update of one PlayerStats entry.
CompleteStat(stat, match) ==
    IF IsDoubles(match)
    THEN [stat EXCEPT !.doublesMatchesPlayed = @ + 1]
    ELSE [stat EXCEPT !.singlesMatchesPlayed = @ + 1]

Max0(x) == IF x < 0 THEN 0 ELSE x

\* A faulty undo that leaves the counts as they are.
UndoStatKept(stat, match) == stat

\* handleUndo's update of one PlayerStats entry.
UndoStat(stat, match) ==
    IF IsDoubles(match)
    THEN [stat EXCEPT !.doublesMatchesPlayed = Max0(@ - 1)]
    ELSE [stat EXCEPT !.singlesMatchesPlayed = Max0(@ - 1)]

\* handleRoundComplete's test.
AllMatchesCompleted(states, round) ==
    \A k \in DOMAIN states : states[k].round = round => states[k].completed

HasSession == session # None

\* No search is being followed.
SearchIdle ==
    /\ sHist = <<>>
    /\ sI = 0
    /\ sBest = <<>>
    /\ sMin = Infinity
    /\ sPc = "idle"
    /\ sDrawn = {}

\* The matches page is not mounted.
NoPage ==
    /\ session = None
    /\ matchStates = <<>>
    /\ playerStats = <<>>
    /\ allCompletedMatches = <<>>
    /\ lastCompletedMatch = None
    /\ uiRound = 1
    /\ folds = <<>>
    /\ undone = {}
    /\ pre = None

Snapshot ==
    [playerStats |-> playerStats, allCompletedMatches |-> allCompletedMatches,
     matchStates |-> matchStates, hist |-> hist]

\* ------------------------------------------------------------- actions
\* PlayerSetup: addPlayer / removePlayer / the court selector.
AddPlayer ==
    /\ ~HasSession
    /\ players < MaxPlayers
    /\ players' = players + 1
    /\ error' = FALSE
    /\ lastEvent' = "addPlayer"
    /\ UNCHANGED <<numberOfCourts, currentRound, hist, session, matchStates,
                   playerStats, allCompletedMatches, lastCompletedMatch,
                   uiRound, folds, undone, pre,
                   schedVars, searchVars>>

RemovePlayer ==
    /\ ~HasSession
    /\ players > 0
    /\ players' = players - 1
    /\ error' = FALSE
    /\ lastEvent' = "removePlayer"
    /\ UNCHANGED <<numberOfCourts, currentRound, hist, session, matchStates,
                   playerStats, allCompletedMatches, lastCompletedMatch,
                   uiRound, folds, undone, pre,
                   schedVars, searchVars>>

SetNumberOfCourts(c) ==
    /\ ~HasSession
    /\ numberOfCourts # c
    /\ numberOfCourts' = c
    /\ lastEvent' = "setCourts"
    /\ UNCHANGED <<players, currentRound, hist, session, matchStates,
                   playerStats, allCompletedMatches, lastCompletedMatch,
                   uiRound, error, folds, undone, pre,
                   schedVars, searchVars>>

\* PlayerSetup.generateMatches with a roster generateSession rejects.
GenerateMatchesError ==
    /\ ~HasSession
    /\ SessionRejected(players)
    /\ error' = TRUE
    /\ lastEvent' = "sessionError"
    /\ UNCHANGED <<players, numberOfCourts, currentRound, hist, session,
                   matchStates, playerStats, allCompletedMatches,
                   lastCompletedMatch, uiRound, folds, undone, pre,
                   schedVars, searchVars>>

\* PlayerSetup.generateMatches, generateSession (general), MatchesPage mounts.
GenerateMatches ==
    /\ ~HasSession
    /\ ~SessionRejected(players)
    /\ \E draw \in RoundDraws(NewHistories(players), numberOfCourts) :
        \E out \in {generateSessionGeneral(players, numberOfCourts, <<>>,
                                           draw)} :
        /\ currentRound' = 1
        /\ hist' = out.hist
        /\ session' = [players |-> players, numberOfCourts |-> numberOfCourts,
                       matches |-> out.matches]
        /\ matchStates' = MergeMatchStates(<<>>, out.matches, 1)
        /\ folds' = [i \in 1..Len(out.matches) |-> 1]
    /\ playerStats' = InitialStats(players)
    /\ allCompletedMatches' = <<>>
    /\ lastCompletedMatch' = None
    /\ uiRound' = 1
    /\ error' = FALSE
    /\ lastEvent' = "session"
    /\ UNCHANGED <<players, numberOfCourts, undone, pre,
                   schedVars, searchVars>>

\* handleMatchComplete(matchId); matchId 0 stands for an id of no match.
HandleMatchComplete(matchId) ==
    /\ HasSession
    /\ IF \A k \in DOMAIN matchStates :
            matchStates[k].match.id = matchId => matchStates[k].completed
       THEN /\ lastEvent' = "completeIgnored"
            /\ UNCHANGED <<matchStates, playerStats, allCompletedMatches,
                           lastCompletedMatch, undone, pre>>
       ELSE LET matchState ==
                    matchStates[CHOOSE k \in DOMAIN matchStates :
                                    matchStates[k].match.id = matchId]
            IN  /\ lastCompletedMatch' = matchState
                /\ matchStates' =
                       [k \in DOMAIN matchStates |->
                           IF matchStates[k].match.id = matchId
                           THEN [matchStates[k] EXCEPT !.completed = TRUE]
                           ELSE matchStates[k]]
                /\ allCompletedMatches' =
                       Append(allCompletedMatches, matchState.match)
                /\ playerStats' =
                       [p \in DOMAIN playerStats |->
                           IF p \in Range(matchState.match.players)
                           THEN CompleteStat(playerStats[p], matchState.match)
                           ELSE playerStats[p]]
                /\ undone' = undone \ {matchId}
                /\ pre' = Snapshot
                /\ lastEvent' = "complete"
    /\ UNCHANGED <<players, numberOfCourts, currentRound, hist, session,
                   uiRound, error, folds,
                   schedVars, searchVars>>

\* A faulty guard that lets every round advance.
RoundAlwaysAdvances == TRUE

\* handleRoundComplete's guard.
RoundCanAdvance == AllMatchesCompleted(matchStates, uiRound)

\* handleRoundComplete: generateNextRound is given the session's roster, its
\* court count and allCompletedMatches.
HandleRoundComplete ==
    /\ HasSession
    /\ RoundCanAdvance => uiRound < MaxRounds
    /\ IF ~RoundCanAdvance
       THEN /\ lastEvent' = "advanceRefused"
            /\ UNCHANGED <<currentRound, hist, session, matchStates, uiRound,
                           folds>>
       ELSE \E draw \in RoundDraws(FoldHistories(hist, allCompletedMatches),
                                    session.numberOfCourts) :
            \E out \in {generateNextRound(hist, session.numberOfCourts,
                                          allCompletedMatches,
                                          Len(session.matches), draw)} :
            /\ currentRound' = incrementRound(currentRound)
            /\ hist' = out.hist
            /\ session' = [session EXCEPT !.matches = @ \o out.matches]
            /\ matchStates' =
                   MergeMatchStates(
                       matchStates \o
                           [i \in 1..Len(out.matches) |->
                               [match |-> out.matches[i], completed |-> FALSE,
                                round |-> uiRound + 1]],
                       session.matches \o out.matches, uiRound + 1)
            /\ uiRound' = uiRound + 1
            /\ folds' =
                   [i \in 1..(Len(folds) + Len(out.matches)) |->
                       IF i > Len(folds) THEN 1
                       ELSE folds[i] + Cardinality(
                                {k \in DOMAIN allCompletedMatches :
                                    allCompletedMatches[k].id = i})]
            /\ lastEvent' = "advance"
    /\ UNCHANGED <<players, numberOfCourts, playerStats, allCompletedMatches,
                   lastCompletedMatch, error, undone, pre,
                   schedVars, searchVars>>

HandleUndo ==
    /\ HasSession
    /\ IF lastCompletedMatch = None
       THEN /\ lastEvent' = "undoIgnored"
            /\ UNCHANGED <<matchStates, playerStats, allCompletedMatches,
                           lastCompletedMatch, undone>>
       ELSE LET matchIdToUndo == lastCompletedMatch.match.id
                keep(m) == m.id # matchIdToUndo
            IN  /\ allCompletedMatches' = SelectSeq(allCompletedMatches, keep)
                /\ matchStates' =
                       [k \in DOMAIN matchStates |->
                           IF matchStates[k].match.id = matchIdToUndo
                           THEN [matchStates[k] EXCEPT !.completed = FALSE]
                           ELSE matchStates[k]]
                /\ playerStats' =
                       [p \in DOMAIN playerStats |->
                           IF p \in Range(lastCompletedMatch.match.players)
                           THEN UndoStat(playerStats[p], lastCompletedMatch.match)
                           ELSE playerStats[p]]
                /\ lastCompletedMatch' = None
                /\ undone' = undone \cup {matchIdToUndo}
                /\ lastEvent' = IF lastEvent = "complete" THEN "undoLast"
                                ELSE "undo"
    /\ UNCHANGED <<players, numberOfCourts, currentRound, hist, session,
                   uiRound, error, folds, pre,
                   schedVars, searchVars>>

Init ==
    /\ players = 0
    /\ numberOfCourts = 1
    /\ currentRound = 1
    /\ hist = <<>>
    /\ session = None
    /\ matchStates = <<>>
    /\ playerStats = <<>>
    /\ allCompletedMatches = <<>>
    /\ lastCompletedMatch = None
    /\ uiRound = 1
    /\ error = FALSE
    /\ lastEvent = "start"
    /\ folds = <<>>
    /\ undone = {}
    /\ pre = None
    /\ variant = "general"
    /\ idKind = "uuid"
    /\ played = <<>>
    /\ returned = NotCalled
    /\ available = {}
    /\ pairsMade = <<>>
    /\ SearchIdle

Next ==
    \/ AddPlayer
    \/ RemovePlayer
    \/ \E c \in Courts : SetNumberOfCourts(c)
    \/ GenerateMatchesError
    \/ GenerateMatches
    \/ \E matchId \in 0..Len(matchStates) : HandleMatchComplete(matchId)
    \/ HandleRoundComplete
    \/ HandleUndo

Spec == Init /\ [][Next]_vars

\* ------------------------------------------- the schedulers on their own
\* The matches a caller may hand over as played: 2, 3 or 4 roster players,
\* listed in roster order.
PlayedMenu(n) ==
    {ps \in UNION {[1..k -> 1..n] : k \in 2..4} :
        /\ IsAscending(ps)
        /\ n > MaxFreeMenu => \A i \in 1..(Len(ps) - 1) : ps[i + 1] = ps[i] + 1}

HistoryCap(n) == IF n >= 8 THEN MaxHistory8 ELSE MaxHistory

\* A caller of the fixed policy adds a played match to the previousMatches
\* it is about to pass.
FixedAddPrevious ==
    /\ variant = "fixed"
    /\ returned = NotCalled
    /\ ~error
    /\ Len(played) < HistoryCap(players)
    /\ \E ps \in PlayedMenu(players) :
           played' = Append(played, NewMatch(Len(played) + 1, ps, 1))
    /\ lastEvent' = "played"
    /\ UNCHANGED <<players, numberOfCourts, currentRound, hist, variant,
                   idKind, returned, available, pairsMade, error, uiVars,
                   searchVars>>

\* part_001 generateSession(players, numberOfCourts, previousMatches).
FixedGenerateSession ==
    /\ variant = "fixed"
    /\ returned = NotCalled
    /\ ~error
    /\ IF SessionRejected(players)
       THEN /\ error' = TRUE
            /\ returned' = NotCalled
            /\ pairsMade' = pairsMade
            /\ lastEvent' = "sessionError"
       ELSE /\ error' = FALSE
            /\ \E sc \in {Scoring(players, played, idKind)} :
                   \E first \in FirstShuffles(players, sc) :
                     \E second \in SecondShuffles(players, sc, first) :
                       /\ returned' = generateDoublesMatches(
                                          players, numberOfCourts, sc,
                                          Len(played), first, second)
                       /\ pairsMade' =
                              IF players = 8
                              THEN finalPairsOf(players, sc, first, second)
                              ELSE <<>>
            /\ lastEvent' = "session"
    /\ UNCHANGED <<players, numberOfCourts, currentRound, hist, variant,
                   idKind, played, available, uiVars, searchVars>>

\* part_002 generateSession(players, numberOfCourts).
GeneralGenerateSession ==
    /\ variant = "general"
    /\ returned = NotCalled
    /\ ~error
    /\ IF SessionRejected(players)
       THEN /\ error' = TRUE
            /\ lastEvent' = "sessionError"
            /\ UNCHANGED <<currentRound, hist, returned>>
       ELSE /\ error' = FALSE
            /\ currentRound' = 1
            /\ \E draw \in RoundDraws(NewHistories(players), numberOfCourts) :
                   \E out \in {generateSessionGeneral(players, numberOfCourts,
                                                      <<>>, draw)} :
                       /\ hist' = out.hist
                       /\ returned' = out.matches
            /\ lastEvent' = "session"
    /\ UNCHANGED <<players, numberOfCourts, variant, idKind, played, available,
                   pairsMade,
                   uiVars, searchVars>>

SchedRoundCap(matches) ==
    IF Len(matches) >= 2 THEN MaxTwoCourtRounds ELSE MaxSchedRounds

\* The pools a caller hands to generateNextRound as its players argument:
\* the roster, or the roster without its first few players.
Pools(n) == {(1..n) \ (1..k) : k \in 0..MaxLeftOut}

\* part_002 generateNextRound(players, numberOfCourts, completedMatches), with
\* every match returned so far completed.  generateRound never reads its
\* players parameter (lines 126-138), so the pool has no part in the result.
GeneralNextRound ==
    /\ variant = "general"
    /\ returned # NotCalled
    /\ currentRound < SchedRoundCap(returned)
    /\ played' = played \o returned
    /\ \E draw \in RoundDraws(FoldHistories(hist, played \o returned),
                            numberOfCourts) :
           \E out \in {generateNextRound(hist, numberOfCourts,
                                         played \o returned,
                                         Len(played \o returned), draw)} :
               /\ hist' = out.hist
               /\ returned' = out.matches
    /\ currentRound' = incrementRound(currentRound)
    /\ available' \in Pools(players)
    /\ lastEvent' = "advance"
    /\ UNCHANGED <<players, numberOfCourts, error, variant, idKind, pairsMade,
                   uiVars, searchVars>>

InitSched ==
    /\ players \in (MinRoster - 1)..MaxSchedPlayers
    /\ numberOfCourts \in Courts
    /\ variant \in {"general", "fixed"}
    /\ idKind \in {"plain", "uuid"}
    /\ variant = "general" => idKind = "uuid"
    /\ currentRound = 1
    /\ hist = <<>>
    /\ error = FALSE
    /\ lastEvent = "start"
    /\ played = <<>>
    /\ returned = NotCalled
    /\ available = {}
    /\ pairsMade = <<>>
    /\ NoPage
    /\ SearchIdle

NextSched ==
    \/ FixedAddPrevious
    \/ FixedGenerateSession
    \/ GeneralGenerateSession
    \/ GeneralNextRound

SpecSched == InitSched /\ [][NextSched]_vars

\* ------------------------------------------- findOptimalPairing's loop
\* The partner sets of the 4 players of a court: any set of partnered pairs.
PairsOf4 == {pr \in SUBSET (1..4) : Cardinality(pr) = 2}

\* The two sides of each way to split the 4 players.
Splits4 == {{pr, (1..4) \ pr} : pr \in PairsOf4}

\* Partnered pairs: the sides of any set of earlier matches of these 4
\* players, or one pair alone or any three pairs (partners from matches with
\* other players of the roster).
PartneredPairs ==
    {UNION splits : splits \in SUBSET Splits4}
        \cup {prs \in SUBSET PairsOf4 : Cardinality(prs) \in {1, 3}}

PartnersFrom(prs) ==
    [p \in 1..4 |->
        [gamesPlayed |-> 0,
         partners |-> {q \in 1..4 : {p, q} \in prs},
         opponents |-> {}]]

PartnerHistories == {PartnersFrom(prs) : prs \in PartneredPairs}

\* The histories left by matches among these 4 players only.
SplitHistories == {PartnersFrom(UNION splits) : splits \in SUBSET Splits4}


\* A faulty loop that is left only at a count of 0.
loopEndsAtZero(min, newMin, i) == newMin # min /\ newMin = 0

\* The loop is left by the break at a count of 0 or after the last trial.
loopEnds(min, newMin, i) == (newMin # min /\ newMin = 0) \/ i >= MaxTrials

\* One iteration: shuffle, count, keep the better, leave the loop at 0.
SearchTrial ==
    /\ sPc = "loop"
    /\ sI < MaxTrials
    /\ \E shuffled \in Arrangements4 :
           LET t == Trial(sBest, sMin, shuffled, sHist)
           IN  /\ sBest' = t.best
               /\ sMin' = t.min
               /\ sDrawn' = sDrawn \cup {SharedPartnerships(shuffled, sHist)}
               /\ sPc' = IF loopEnds(sMin, t.min, sI + 1)
                         THEN "returned" ELSE "loop"
    /\ sI' = sI + 1
    /\ UNCHANGED <<sHist, players, numberOfCourts, currentRound, hist, error,
                   lastEvent, uiVars, schedVars>>

InitSearch ==
    /\ sHist \in PartnerHistories
    /\ sI = 0
    /\ sBest = Roster(4)
    /\ sMin = Infinity
    /\ sPc = "loop"
    /\ sDrawn = {}
    /\ players = 4
    /\ numberOfCourts = 1
    /\ currentRound = 1
    /\ hist = <<>>
    /\ error = FALSE
    /\ lastEvent = "start"
    /\ variant = "general"
    /\ idKind = "uuid"
    /\ played = <<>>
    /\ returned = NotCalled
    /\ available = {}
    /\ pairsMade = <<>>
    /\ NoPage

NextSearch == SearchTrial

SpecSearch == InitSearch /\ [][NextSearch]_vars

InitSearchRuns ==
    /\ InitSearch
    /\ sHist \in SplitHistories

\* The loop is sequential code: a trial that can run does run.
SpecSearchRuns == InitSearchRuns /\ [][NextSearch]_vars /\ WF_vars(NextSearch)

\* ------------------------------------------------------------ properties
\* A scheduler call has just returned a round.
RoundReturned == lastEvent \in {"session", "advance"}

PlayersOf(matches) == UNION {Range(matches[k].players) : k \in DOMAIN matches}

Distinct(ps) == \A i, j \in DOMAIN ps : i # j => ps[i] # ps[j]

\* C1: for a roster of exactly 4 players, any court count and any history,
\* the round returned holds exactly one match, with all 4 roster players, on
\* court 1.
C1_FourPlayersOneMatch ==
    (players = 4 /\ RoundReturned) =>
        /\ Len(returned) = 1
        /\ Range(returned[1].players) = 1..4
        /\ returned[1].court = 1

TwoMatchesOfFour ==
    /\ Len(returned) = 2
    /\ \A k \in 1..2 : Len(returned[k].players) = 4
    /\ \A p \in 1..players :
           Cardinality({ki \in (1..2) \X (1..4) :
                           returned[ki[1]].players[ki[2]] = p}) = 1

\* C2 as stated: for a roster of exactly 8 players and any history, the round
\* returned holds exactly 2 matches of 4 players and every roster player
\* appears exactly once across them.
C2_EightPlayersTwoMatches ==
    (players = 8 /\ RoundReturned) => TwoMatchesOfFour

\* C2 amended: for a roster of exactly 8 players, the fixed policy with any
\* court count and any history, and the general scheduler with 2 courts,
\* return exactly 2 matches of 4 players in which every roster player appears
\* exactly once.
C2_EightPlayersTwoMatchesTwoCourts ==
    (players = 8 /\ RoundReturned
        /\ (variant = "fixed" \/ numberOfCourts = 2)) => TwoMatchesOfFour

\* The fixed policy has paired 8 players with a previous match on record.
C2_Witness ==
    /\ players = 8
    /\ variant = "fixed"
    /\ lastEvent = "session"
    /\ played # <<>>
    /\ Len(returned) = 2

ValidRound(matches, n) ==
    /\ \A k \in DOMAIN matches :
           /\ Len(matches[k].players) \in 2..4
           /\ Distinct(matches[k].players)
           /\ Range(matches[k].players) \subseteq 1..n
    /\ \A j, k \in DOMAIN matches :
           j # k => Range(matches[j].players) \cap Range(matches[k].players) = {}

\* C3: in every round returned by generateSession, generateNextRound or
\* generateDoublesMatches, every match has 2, 3 or 4 pairwise-distinct roster
\* players and no player is in two matches of the round.
C3_RoundIsValid == RoundReturned => ValidRound(returned, players)

\* The general scheduler has returned a second round for 6 players, two of
\* whom sit out.
C3_Witness ==
    /\ lastEvent = "advance"
    /\ players = 6
    /\ Len(returned) = 1
    /\ played # <<>>

\* C4: generateSession with fewer than 4 players fails with the validation
\* error and returns no session; with 4 players or more it does not raise it.
C4_SessionValidation ==
    /\ lastEvent = "sessionError" =>
           (players < 4 /\ error /\ returned = NotCalled)
    /\ lastEvent = "session" =>
           (players >= 4 /\ ~error /\ returned # NotCalled)
    /\ (error \/ returned # NotCalled) =>
           (error <=> players < 4)

\* generateSession has rejected a roster of 3.
C4_Witness ==
    /\ lastEvent = "sessionError"
    /\ players = 3
    /\ error

CompletedWith(p) ==
    Cardinality({k \in DOMAIN allCompletedMatches :
                    p \in Range(allCompletedMatches[k].players)})

\* C5: each completed match is folded into the ledger exactly once: once every
\* match of the session is completed and none was undone, every roster
\* player's gamesPlayed equals the number of completed matches with the player.
C5_LedgerCountsCompleted ==
    (/\ HasSession
     /\ undone = {}
     /\ \A k \in DOMAIN matchStates : matchStates[k].completed) =>
        \A q \in DOMAIN hist : hist[q].gamesPlayed = CompletedWith(q)

\* C6: handleMatchComplete followed at once by handleUndo restores the counts
\* of every player, the list of completed matches (from which partner sets,
\* opponent sets and pair frequencies are derived), the completed flags and
\* the ledger.
C6_CompleteUndoRoundTrip ==
    lastEvent = "undoLast" =>
        /\ playerStats = pre.playerStats
        /\ allCompletedMatches = pre.allCompletedMatches
        /\ matchStates = pre.matchStates
        /\ hist = pre.hist
        /\ ParticipationMap(players, allCompletedMatches)
               = ParticipationMap(players, pre.allCompletedMatches)
        /\ getPairings(allCompletedMatches, idKind)
               = getPairings(pre.allCompletedMatches, idKind)

\* A match of round 2 was completed and undone with an earlier completed match
\* on record.
C6_Witness ==
    /\ lastEvent = "undoLast"
    /\ uiRound = 2
    /\ allCompletedMatches # <<>>
    /\ \E q \in DOMAIN playerStats : playerStats[q].doublesMatchesPlayed > 0

CurrentRoundIncomplete ==
    \E k \in DOMAIN matchStates :
        matchStates[k].round = uiRound /\ ~matchStates[k].completed

\* C7: when some match of the current round is not completed,
\* handleRoundComplete does not generate a round and changes neither the
\* session's matches, the match states, the round number nor the ledger.
C7_NoAdvanceWhileIncomplete ==
    [][(lastEvent' \in {"advance", "advanceRefused"} /\ CurrentRoundIncomplete)
          => /\ lastEvent' = "advanceRefused"
             /\ UNCHANGED <<session, matchStates, uiRound, currentRound, hist,
                            folds>>]_vars

\* handleRoundComplete was called with a match of the current round pending
\* and another completed.
C7_Witness ==
    /\ lastEvent = "advanceRefused"
    /\ CurrentRoundIncomplete
    /\ allCompletedMatches # <<>>

\* C8: after a completed match is undone, the ledger the next round is
\* scheduled from holds no fold of it as a completed match (at most the one
\* record made when the match was scheduled), in any order of complete, undo
\* and advance.
C8_UndoneNotCounted ==
    \A m \in undone : m \in DOMAIN folds => folds[m] <= 1

ZeroViolationExists(h) ==
    \E a \in Arrangements4 : SharedPartnerships(a, h) = 0

\* Round 1 paired players 1 and 2, and players 3 and 4.
RoundOnePartners ==
    /\ sHist[1].partners = {2}
    /\ sHist[2].partners = {1}
    /\ sHist[3].partners = {4}
    /\ sHist[4].partners = {3}

SameSide(a, q, b) ==
    \E i, j \in DOMAIN a :
        a[i] = q /\ a[j] = b /\ SideOf([players |-> a], i) = SideOf([players |-> a], j)

\* C9: with 4 players on one court whose round 1 paired 1 with 2 and 3 with
\* 4, the search returns an arrangement with no previous partners on a side,
\* players 1 and 2 apart, whatever the shuffles of its trials.
C9_SearchFindsZero ==
    (sPc = "returned" /\ RoundOnePartners /\ ZeroViolationExists(sHist)) =>
        /\ SharedPartnerships(sBest, sHist) = 0
        /\ ~SameSide(sBest, 1, 2)

PlayedTotal(q) ==
    Cardinality({k \in DOMAIN played : q \in Range(played[k].players)})

\* The number of roster players ranked before q: fewer previous matches, or
\* as many and earlier in the roster.
PlayedRank(q) ==
    Cardinality({r \in 1..players :
                    \/ PlayedTotal(r) < PlayedTotal(q)
                    \/ PlayedTotal(r) = PlayedTotal(q) /\ r < q})

\* C10: in the fixed policy with 5, 6 or 7 players, the court-1 doubles match
\* is the 4 players with the fewest previous matches (doubles and singles),
\* ties in roster order; every player left out of it has played at least as
\* much as every player in it; with one court exactly N - 4 players sit out.
C10_FewestPlayedFour ==
    (variant = "fixed" /\ players \in 5..7 /\ lastEvent = "session") =>
        /\ returned[1].court = 1
        /\ Len(returned[1].players) = 4
        /\ \A i \in 1..4 : PlayedRank(returned[1].players[i]) = i - 1
        /\ \A q \in (1..players) \ Range(returned[1].players) :
               \A r \in Range(returned[1].players) :
                   PlayedTotal(q) >= PlayedTotal(r)
        /\ numberOfCourts = 1 =>
               /\ Len(returned) = 1
               /\ Cardinality((1..players) \ PlayersOf(returned)) = players - 4

\* 7 players with two previous matches: the doubles match is not the first 4
\* of the roster.
C10_Witness ==
    /\ variant = "fixed"
    /\ players = 7
    /\ lastEvent = "session"
    /\ Len(played) = 2
    /\ returned[1].players # <<1, 2, 3, 4>>

PlayedSingles(q) ==
    Cardinality({k \in DOMAIN played :
                    q \in Range(played[k].players) /\ Len(played[k].players) # 4})

\* C11: in the fixed policy with 2 courts, 6 players get a doubles match on
\* court 1 and a 2-player match on court 2, 7 players a doubles match on
\* court 1 and a 3-player match on court 2 of the players not in the doubles
\* match in ascending order of singles played; every roster player is in
\* exactly one match.
C11_TwoCourtsSixSeven ==
    (variant = "fixed" /\ players \in {6, 7} /\ numberOfCourts = 2
        /\ lastEvent = "session") =>
        /\ Len(returned) = 2
        /\ returned[1].court = 1
        /\ Len(returned[1].players) = 4
        /\ returned[2].court = 2
        /\ Len(returned[2].players) = players - 4
        /\ Distinct(returned[1].players \o returned[2].players)
        /\ PlayersOf(returned) = 1..players
        /\ \A i, j \in DOMAIN returned[2].players :
               i < j => PlayedSingles(returned[2].players[i])
                            <= PlayedSingles(returned[2].players[j])

\* 7 players on 2 courts: the court-2 match lists a player with fewer singles
\* before one the roster ranks earlier.
C11_Witness ==
    /\ variant = "fixed"
    /\ players = 7
    /\ numberOfCourts = 2
    /\ lastEvent = "session"
    /\ Len(returned) = 2
    /\ Len(returned[2].players) = 3
    /\ PlayedSingles(returned[2].players[1]) < PlayedSingles(returned[2].players[3])
    /\ returned[2].players[1] > returned[2].players[3]

\* ----------------------------------------------- the ledgers on their own
\* A match handed over as played: 2, 3 or 4 different roster players in any
\* order.
RecordMenu(n) ==
    {ps \in UNION {[1..k -> 1..n] : k \in 2..4} : Distinct(ps)}

\* One played match is recorded: generateSession and generateNextRound of
\* part_002 apply updatePlayerHistories to it, the fixed policy receives it
\* in previousMatches and derives its participation map and pairings from
\* that list.
RecordMatch ==
    /\ variant = "ledger"
    /\ ~error
    /\ Len(played) < MaxRecorded
    /\ \E ps \in RecordMenu(players) :
           \E match \in {NewMatch(Len(played) + 1, ps, 1)} :
               /\ played' = Append(played, match)
               /\ hist' = updatePlayerHistories(hist, match)
               /\ error' = updateThrows(match)
               /\ lastEvent' = IF updateThrows(match) THEN "recordThrew"
                               ELSE "record"
    /\ UNCHANGED <<players, numberOfCourts, currentRound, variant, idKind,
                   returned, available, pairsMade, uiVars, searchVars>>

InitLedger ==
    /\ players \in MinRoster..MaxLedgerPlayers
    /\ idKind \in {"plain", "uuid"}
    /\ hist = NewHistories(players)
    /\ played = <<>>
    /\ variant = "ledger"
    /\ numberOfCourts = 1
    /\ currentRound = 1
    /\ error = FALSE
    /\ lastEvent = "start"
    /\ returned = NotCalled
    /\ available = {}
    /\ pairsMade = <<>>
    /\ NoPage
    /\ SearchIdle

NextLedger == RecordMatch

SpecLedger == InitLedger /\ [][NextLedger]_vars

\* A match has just been recorded.
Recorded == lastEvent' \in {"record", "recordThrew"} /\ Len(played') = Len(played) + 1

\* How often two players have played together, as the pair scorer reads it.
PairFrequency(a, b, matches) ==
    pairingCount(a, b, getPairings(matches, idKind), idKind)

\* C12: recording a doubles match raises the pair frequency of each of the
\* six pairs of its players by exactly 1, whichever player is named first,
\* and leaves the frequency of every other pair as it was.
C12_DoublesRaisesSixPairs ==
    [][(Recorded /\ Len(played'[Len(played')].players) = 4) =>
          \A a, b \in 1..players :
              a # b =>
                  PairFrequency(a, b, played') - PairFrequency(a, b, played)
                      = IF {a, b} \subseteq Range(played'[Len(played')].players)
                        THEN 1 ELSE 0]_vars

SameSideOf(match, q) ==
    {match.players[j] : j \in {k \in DOMAIN match.players :
        /\ match.players[k] # q
        /\ \E i \in DOMAIN match.players :
               match.players[i] = q /\ SideOf(match, i) = SideOf(match, k)}}

OtherSideOf(match, q) == (Range(match.players) \ SameSideOf(match, q)) \ {q}

\* C13: recording a match of 2, 3 or 4 players raises no error and, for each
\* of its players, counts one more game (doubles for 4 players, singles
\* otherwise), adds the other players of its side to its partners and the
\* players of the other side to its opponents, in the general ledger and in
\* the fixed policy's participation map alike, and raises the pair frequency
\* of the player with every other player of the match by 1.
C13_RecordUpdatesLedger ==
    [][Recorded =>
          \E match \in {played'[Len(played')]} :
              /\ ~error'
              /\ \A q \in Range(match.players) :
                     /\ hist'[q].gamesPlayed = hist[q].gamesPlayed + 1
                     /\ hist'[q].partners
                            = hist[q].partners \cup SameSideOf(match, q)
                     /\ hist'[q].opponents
                            = hist[q].opponents \cup OtherSideOf(match, q)
                     /\ \E old \in {ParticipationOf(q, played)} :
                        \E new \in {ParticipationOf(q, played')} :
                            /\ new.doublesMatchesPlayed = old.doublesMatchesPlayed
                                   + (IF Len(match.players) = 4 THEN 1 ELSE 0)
                            /\ new.singlesMatchesPlayed = old.singlesMatchesPlayed
                                   + (IF Len(match.players) = 4 THEN 0 ELSE 1)
                            /\ new.partners
                                   = old.partners \cup SameSideOf(match, q)
                            /\ new.opponents
                                   = old.opponents \cup OtherSideOf(match, q)
                     /\ \A r \in Range(match.players) \ {q} :
                            PairFrequency(q, r, played')
                                = PairFrequency(q, r, played) + 1]_vars

Min(a, b) == IF a <= b THEN a ELSE b

\* C14: in the general scheduler with fewer players than numberOfCourts * 4,
\* a round is returned without error and holds as many 4-player matches as
\* the players fill courts (the whole of N / 4, at most numberOfCourts); it is
\* empty only when N < 4.
C14_PartialRound ==
    (variant = "general" /\ RoundReturned
        /\ players < numberOfCourts * PlayersPerCourt) =>
        /\ ~error
        /\ Len(returned) = Min(players \div PlayersPerCourt, numberOfCourts)
        /\ \A k \in DOMAIN returned : Len(returned[k].players) = 4

----------------------------------------------------------------------------
\* Two sessions built in one process.  part_002 keeps currentRound and
\* globalPlayerHistories at module level (lines 10-14), so a second
\* generateSession runs on the state the first session advances on.  The
\* second session is built for a roster of the same size and court count;
\* pre records what the module held for the first session just before, and
\* the round the second call returned.

OtherGenerateSession ==
    /\ variant = "general"
    /\ returned # NotCalled
    /\ ~error
    /\ pre = None
    /\ ~SessionRejected(players)
    /\ currentRound' = 1
    /\ \E draw \in RoundDraws(NewHistories(players), numberOfCourts) :
           \E out \in {generateSessionGeneral(players, numberOfCourts,
                                              <<>>, draw)} :
               /\ hist' = out.hist
               /\ pre' = [hist |-> hist, currentRound |-> currentRound,
                          matches |-> out.matches]
    /\ lastEvent' = "otherSession"
    /\ UNCHANGED <<players, numberOfCourts, error, schedVars, session,
                   matchStates, playerStats, allCompletedMatches,
                   lastCompletedMatch, uiRound, folds, undone, searchVars>>

\* A faulty generateSession that resets the round counter and the ledger
\* before it validates the roster.
rejectedAfterReset(h, round) == [hist |-> <<>>, currentRound |-> 1]

\* The round counter and the ledger a rejected generateSession leaves: the
\* throw comes before the reset.
rejectedSession(h, round) == [hist |-> h, currentRound |-> round]

\* While the first session runs, another caller calls generateSession with
\* fewer than 4 players and catches the error.
OtherGenerateSessionRejected ==
    /\ variant = "general"
    /\ returned # NotCalled
    /\ ~error
    /\ pre = None
    /\ \E n \in 0..(MinRoster - 1) :
           /\ SessionRejected(n)
           /\ \E out \in {rejectedSession(hist, currentRound)} :
                  /\ hist' = out.hist
                  /\ currentRound' = out.currentRound
    /\ lastEvent' = "otherSessionError"
    /\ UNCHANGED <<players, numberOfCourts, error, schedVars, session,
                   matchStates, playerStats, allCompletedMatches,
                   lastCompletedMatch, uiRound, folds, undone, pre,
                   searchVars>>

\* The first session advances until the second one is built.
FirstSessionNextRound ==
    /\ pre = None
    /\ GeneralNextRound
    /\ available' = 1..players

InitSessions ==
    /\ players \in MinRoster..MaxSessionPlayers
    /\ numberOfCourts \in Courts
    /\ variant = "general"
    /\ idKind = "uuid"
    /\ currentRound = 1
    /\ hist = <<>>
    /\ error = FALSE
    /\ lastEvent = "start"
    /\ played = <<>>
    /\ returned = NotCalled
    /\ available = {}
    /\ pairsMade = <<>>
    /\ NoPage
    /\ SearchIdle

NextSessions ==
    \/ GeneralGenerateSession
    \/ FirstSessionNextRound
    \/ OtherGenerateSession
    \/ OtherGenerateSessionRejected

SpecSessions == InitSessions /\ [][NextSessions]_vars

\* C15: building a second session leaves the ledger and the round number of
\* the session that already exists as they were.
C15_SessionsIndependent ==
    lastEvent = "otherSession" =>
        /\ hist = pre.hist
        /\ currentRound = pre.currentRound

\* A round without the match ids, which are fresh on every call.
Scheduled(matches) ==
    [k \in DOMAIN matches |->
        [players |-> matches[k].players, court |-> matches[k].court,
         side |-> matches[k].side]]

\* C19: two runs of generateSession from the same roster order, court count
\* and (empty) ledger return the same round: nothing in the result is left
\* to a random source the caller does not pass in.
C19_SameInputsSameRound ==
    (lastEvent = "otherSession" /\ played = <<>>) =>
        Scheduled(pre.matches) = Scheduled(returned)

\* C16: the round number is 1 after generateSession, grows by exactly 1 on
\* every generateNextRound and changes at no other step; after k advances it is
\* k + 1, the round MatchesPage shows and tags the k-th advance's matches with.
C16_RoundNumber ==
    [][/\ (session = None /\ session' # None) => currentRound' = 1
       /\ lastEvent' = "advance" =>
              /\ currentRound' = currentRound + 1
              /\ \A i \in (Len(matchStates) + 1)..Len(matchStates') :
                     matchStates'[i].round = currentRound'
       /\ (session' = session /\ lastEvent' # "advance") =>
              currentRound' = currentRound
       /\ session' # None => currentRound' = uiRound']_vars

C16_Witness ==
    /\ lastEvent = "advance"
    /\ currentRound = 2
    /\ \E i \in DOMAIN matchStates : matchStates[i].round = 2

----------------------------------------------------------------------------
\* The doubles and singles counts of MatchesPage as a ledger of their own:
\* handleMatchComplete's updater records a match in playerStats and
\* handleUndo's updater unrecords one.  The match is the caller's choice, so
\* a match can be unrecorded that was never recorded; pre keeps the counts
\* and the match the last unrecording started from.

StatOf(stat, match) ==
    IF IsDoubles(match) THEN stat.doublesMatchesPlayed
    ELSE stat.singlesMatchesPlayed

RecordStats ==
    /\ variant = "stats"
    /\ \E ps \in RecordMenu(players) :
           \E match \in {NewMatch(1, ps, 1)} :
               /\ \A p \in Range(ps) :
                      StatOf(playerStats[p], match) < MaxStatCount
               /\ playerStats' =
                      [p \in DOMAIN playerStats |->
                          IF p \in Range(match.players)
                          THEN CompleteStat(playerStats[p], match)
                          ELSE playerStats[p]]
    /\ pre' = None
    /\ lastEvent' = "recordStats"
    /\ UNCHANGED <<players, numberOfCourts, currentRound, hist, error,
                   session, matchStates, allCompletedMatches,
                   lastCompletedMatch, uiRound, folds, undone, schedVars,
                   searchVars>>

\* handleUndo, lines 152-165: nothing in it throws or sets an error.
UnrecordStats ==
    /\ variant = "stats"
    /\ \E ps \in RecordMenu(players) :
           \E match \in {NewMatch(1, ps, 1)} :
               /\ playerStats' =
                      [p \in DOMAIN playerStats |->
                          IF p \in Range(match.players)
                          THEN UndoStat(playerStats[p], match)
                          ELSE playerStats[p]]
               /\ pre' = [playerStats |-> playerStats, match |-> match]
    /\ lastEvent' = "unrecordStats"
    /\ UNCHANGED <<players, numberOfCourts, currentRound, hist, error,
                   session, matchStates, allCompletedMatches,
                   lastCompletedMatch, uiRound, folds, undone, schedVars,
                   searchVars>>

InitStats ==
    /\ players = MinRoster
    /\ numberOfCourts = 1
    /\ variant = "stats"
    /\ idKind = "uuid"
    /\ currentRound = 1
    /\ hist = <<>>
    /\ error = FALSE
    /\ lastEvent = "start"
    /\ played = <<>>
    /\ returned = NotCalled
    /\ available = {}
    /\ pairsMade = <<>>
    /\ session = None
    /\ matchStates = <<>>
    /\ playerStats = InitialStats(players)
    /\ allCompletedMatches = <<>>
    /\ lastCompletedMatch = None
    /\ uiRound = 1
    /\ folds = <<>>
    /\ undone = {}
    /\ pre = None
    /\ SearchIdle

NextStats ==
    \/ RecordStats
    \/ UnrecordStats

SpecStats == InitStats /\ [][NextStats]_vars

C18_RoundWithinPool ==
    (variant = "general" /\ lastEvent = "advance") =>
        PlayersOf(returned) \subseteq available

----------------------------------------------------------------------------
\* A session of the fixed policy played round after round: every round the
\* caller passes the matches completed so far as previousMatches, and the
\* round returned is completed before the next call.  For up to 7 players
\* generateDoublesMatches reads previousMatches only through differences of
\* participation counts (aTotal - bTotal, aSingles - bSingles), so hist holds
\* the doubles and singles counts with the doubles counts taken relative to
\* the least of them; with 4 or 5 players every match is a doubles match.

\* The counts of the participation map (part_001 lines 118-165).
Counts(n, previousMatches) ==
    [p \in 1..n |->
        [doublesMatchesPlayed |->
             ParticipationOf(p, previousMatches).doublesMatchesPlayed,
         singlesMatchesPlayed |->
             ParticipationOf(p, previousMatches).singlesMatchesPlayed]]

\* The counts once the matches are completed and passed as well.
CountsAfter(part, matches) ==
    [p \in DOMAIN part |->
        [doublesMatchesPlayed |->
             part[p].doublesMatchesPlayed
                 + Cardinality({k \in DOMAIN matches :
                                   /\ p \in Range(matches[k].players)
                                   /\ Len(matches[k].players) = 4}),
         singlesMatchesPlayed |->
             part[p].singlesMatchesPlayed
                 + Cardinality({k \in DOMAIN matches :
                                   /\ p \in Range(matches[k].players)
                                   /\ Len(matches[k].players) # 4})]]

RelativeCounts(part) ==
    LET least == CHOOSE m \in {part[p].doublesMatchesPlayed : p \in DOMAIN part} :
                     \A p \in DOMAIN part : m <= part[p].doublesMatchesPlayed
    IN  [p \in DOMAIN part |->
            [part[p] EXCEPT !.doublesMatchesPlayed = @ - least]]

EarlierMatches(n) ==
    UNION {[1..k -> PlayedMenu(n)] : k \in 0..MaxEarlier}

\* Match ids are fresh (crypto.randomUUID): a round never carries the id of
\* the round before it.
FreshBase(matches) ==
    IF matches = NotCalled \/ matches = <<>> THEN 0
    ELSE IF matches[1].id = 1 THEN 1 ELSE 0

FixedNextRound ==
    /\ variant = "fixed"
    /\ \E part \in {IF returned = NotCalled THEN hist
                    ELSE CountsAfter(hist, returned)} :
           /\ returned' = generateDoublesMatches(
                              players, numberOfCourts,
                              [part |-> part, pairings |-> <<>>,
                               score |-> <<>>, greedy |-> <<>>],
                              FreshBase(returned), NoShuffle, NoShuffle)
           /\ hist' = RelativeCounts(part)
    /\ lastEvent' = "round"
    /\ UNCHANGED <<players, numberOfCourts, currentRound, error, variant,
                   idKind, played, available, pairsMade, uiVars, searchVars>>

InitRounds ==
    /\ players \in MinRoster..MaxRoundPlayers
    /\ numberOfCourts \in Courts
    /\ variant = "fixed"
    /\ idKind = "plain"
    /\ hist \in {RelativeCounts(
                    Counts(players, [k \in DOMAIN e |-> NewMatch(k, e[k], 1)])) :
                    e \in EarlierMatches(players)}
    /\ currentRound = 1
    /\ error = FALSE
    /\ lastEvent = "start"
    /\ played = <<>>
    /\ returned = NotCalled
    /\ available = {}
    /\ pairsMade = <<>>
    /\ NoPage
    /\ SearchIdle

NextRounds == FixedNextRound

\* Rounds keep being completed and advanced.
SpecRounds == InitRounds /\ [][NextRounds]_vars /\ WF_vars(NextRounds)

RosterPairs ==
    {pair \in (1..MaxRoundPlayers) \X (1..MaxRoundPlayers) : pair[1] < pair[2]}

\* C20: in a session whose rounds keep being completed and advanced, every
\* two players of the roster are eventually placed on the same side of a
\* match of a round.
C20_EveryPairTogether ==
    \A pair \in RosterPairs :
        <>(pair[2] <= players =>
              /\ returned # NotCalled
              /\ \E k \in DOMAIN returned :
                     SameSide(returned[k].players, pair[1], pair[2]))

PlaysOnSide(q, side) ==
    /\ returned # NotCalled
    /\ \E k \in DOMAIN returned :
           q \in Range(returned[k].players) /\ returned[k].side = side

\* C21: in a session whose rounds keep being completed and advanced, every
\* player of the roster eventually plays a match on side 'left' and a match
\* on side 'right'.
C21_BothSides ==
    \A q \in 1..MaxRoundPlayers :
        \A side \in Sides : <>(q <= players => PlaysOnSide(q, side))

\* The two sides of every match of a round, as sets of players.
TeamsOf(matches) ==
    UNION {{{matches[k].players[1], matches[k].players[2]},
            {matches[k].players[3], matches[k].players[4]}} :
              k \in DOMAIN matches}

\* C22: for 8 players the four pairs are the first fit over all 28 pairs in
\* ascending score order; the random pairing is used only when that scan
\* gives fewer than 4 disjoint pairs.
C22_FirstFitOverAllPairs ==
    (variant = "fixed" /\ players = 8 /\ lastEvent = "session") =>
        \E sc \in {Scoring(players, played, idKind)} :
            \E firstFit \in {PickPairs(scoredPairs(players, sc.score), <<>>)} :
                Len(firstFit) = 4 =>
                    TeamsOf(returned) = {Range(firstFit[k]) : k \in 1..4}

\* The sum of the pair scores of every combination of a player of pair p
\* with a player of pair q.
CrossScore(p, q, score) ==
    score[p[1]][q[1]] + score[p[1]][q[2]] + score[p[2]][q[1]] + score[p[2]][q[2]]

GroupingTotal(fp, a, b, c, d, score) ==
    CrossScore(fp[a], fp[b], score) + CrossScore(fp[c], fp[d], score)

\* The grouping of the four pairs with the lowest total, the earliest of
\* {P1+P2 | P3+P4}, {P1+P3 | P2+P4}, {P1+P4 | P2+P3} on a tie.
LowestGrouping(fp, score) ==
    LET total1 == GroupingTotal(fp, 1, 2, 3, 4, score)
        total2 == GroupingTotal(fp, 1, 3, 2, 4, score)
        total3 == GroupingTotal(fp, 1, 4, 2, 3, score)
    IN  IF total1 <= total2 /\ total1 <= total3
        THEN <<fp[1] \o fp[2], fp[3] \o fp[4]>>
        ELSE IF total2 <= total3
        THEN <<fp[1] \o fp[3], fp[2] \o fp[4]>>
        ELSE <<fp[1] \o fp[4], fp[2] \o fp[3]>>

\* C23: the two matches for 8 players are the grouping of the four final
\* pairs whose total of cross-pair scores is lowest (the earliest on a tie),
\* every pair kept as one side, on courts 1 and 2.
C23_LowestCrossPairGrouping ==
    (variant = "fixed" /\ players = 8 /\ lastEvent = "session") =>
        \E sc \in {Scoring(players, played, idKind)} :
            \E courts \in {LowestGrouping(pairsMade, sc.score)} :
                /\ Len(returned) = 2
                /\ \A k \in 1..2 : /\ returned[k].players = courts[k]
                                   /\ returned[k].court = k

\* The number of recorded doubles matches that contain both players.
DoublesWithBoth(a, b, matches) ==
    Cardinality({k \in DOMAIN matches :
                    /\ Len(matches[k].players) = 4
                    /\ {a, b} \subseteq Range(matches[k].players)})

\* C24: for any two players, any history and any ids (ids containing '-'
\* included), calculatePairScore is 10 times the number of previous doubles
\* matches containing both, plus the total matches of each, and is the same
\* in either order of the two players.
C24_PairScore ==
    variant = "ledger" =>
        \E pairings \in {getPairings(played, idKind)} :
            \E part \in {ParticipationMap(players, played)} :
                \A a, b \in 1..players :
                    a # b =>
                        /\ calculatePairScore(a, b, pairings, part, idKind)
                               = 10 * DoublesWithBoth(a, b, played)
                                     + TotalMatches(part, a)
                                     + TotalMatches(part, b)
                        /\ calculatePairScore(a, b, pairings, part, idKind)
                               = calculatePairScore(b, a, pairings, part, idKind)

\* C25: findOptimalPairing holds a permutation of its 4 input players whose
\* count of shared partnerships is that of an arrangement it tried and no
\* greater than that of any arrangement it tried, and it tries no further
\* arrangement once one with a count of 0 has been seen.
C25_SearchKeepsBest ==
    (sPc \in {"loop", "returned"} /\ sI > 0) =>
        /\ Range(sBest) = 1..4 /\ Len(sBest) = 4
        /\ SharedPartnerships(sBest, sHist) \in sDrawn
        /\ \A d \in sDrawn : SharedPartnerships(sBest, sHist) <= d
        /\ 0 \in sDrawn => sPc = "returned"

C25_Witness ==
    /\ sPc = "returned"
    /\ sI < MaxTrials
    /\ Cardinality(sDrawn) >= 2
    /\ SharedPartnerships(sBest, sHist) = 0

\* C26: the search ends: it returns an arrangement of its 4 players after at
\* most 100 trials, also when no arrangement without previous partners exists.
C26_SearchTerminates ==
    <>(sPc = "returned" /\ sI <= MaxTrials /\ Range(sBest) = 1..4)

C26_Witness ==
    /\ sPc = "returned"
    /\ sI = MaxTrials
    /\ ~ZeroViolationExists(sHist)
    /\ Range(sBest) = 1..4

\* The players of S are the least-played entries of ledger h, ties going to
\* the entries earlier in the ledger.
LeastPlayedIn(h, S) ==
    \A q \in S : \A r \in DOMAIN h \ S :
        \/ h[q].gamesPlayed < h[r].gamesPlayed
        \/ h[q].gamesPlayed = h[r].gamesPlayed /\ q < r

\* C27: in the general scheduler the numberOfCourts * 4 players of a
\* non-empty round are the least-played entries of the ledger at selection
\* time (the fresh ledger for generateSession, the ledger with the completed
\* matches folded in for generateNextRound), ties by ledger order.
C27_LeastPlayedSelected ==
    [][(variant = "general" /\ lastEvent' \in {"session", "advance"}
            /\ returned' # <<>>) =>
          /\ Cardinality(PlayersOf(returned')) = numberOfCourts * PlayersPerCourt
          /\ LeastPlayedIn(IF lastEvent' = "session" THEN NewHistories(players)
                           ELSE FoldHistories(hist, played'),
                           PlayersOf(returned'))]_vars

C27_Witness ==
    /\ variant = "general"
    /\ lastEvent = "advance"
    /\ players = 5
    /\ 5 \in PlayersOf(returned)
    /\ hist[5].gamesPlayed < hist[1].gamesPlayed

----------------------------------------------------------------------------
\* A long session of the general scheduler driven as MatchesPage drives it:
\* generateSession, then every match of the round completed and
\* generateNextRound called with all completed matches, round after round.
\* Which players a round selects depends on gamesPlayed alone (part_002 lines
\* 66-74), and gamesPlayed is written without regard to partners, sides or
\* the order inside a match (lines 33-38); so after every draw the ledger is
\* kept as its gamesPlayed counts and a match as the set of its players.

CountsOnly(h) ==
    [p \in DOMAIN h |-> [h[p] EXCEPT !.partners = {}, !.opponents = {}]]

PlayersOnly(matches) ==
    [k \in DOMAIN matches |->
        NewMatch(matches[k].id, AscendingSeq(Range(matches[k].players)),
                 matches[k].court)]

BalanceGenerateSession ==
    /\ variant = "balance"
    /\ returned = NotCalled
    /\ currentRound' = 1
    /\ \E draw \in RoundDraws(NewHistories(players), numberOfCourts) :
           \E out \in {generateSessionGeneral(players, numberOfCourts,
                                              <<>>, draw)} :
               /\ hist' = CountsOnly(out.hist)
               /\ returned' = PlayersOnly(out.matches)
    /\ lastEvent' = "session"
    /\ UNCHANGED <<players, numberOfCourts, error, variant, idKind, played,
                   available, pairsMade, uiVars, searchVars>>

\* handleMatchComplete for every match of the round, then
\* handleRoundComplete.
BalanceNextRound ==
    /\ variant = "balance"
    /\ returned # NotCalled
    /\ currentRound < (IF numberOfCourts = 1 THEN MaxBalanceRounds
                       ELSE MaxTwoCourtRounds)
    /\ allCompletedMatches' = allCompletedMatches \o returned
    /\ \E draw \in RoundDraws(FoldHistories(hist, allCompletedMatches \o returned),
                            numberOfCourts) :
           \E out \in {generateNextRound(hist, numberOfCourts,
                                         allCompletedMatches \o returned,
                                         Len(allCompletedMatches \o returned),
                                         draw)} :
               /\ hist' = CountsOnly(out.hist)
               /\ returned' = PlayersOnly(out.matches)
    /\ currentRound' = incrementRound(currentRound)
    /\ lastEvent' = "advance"
    /\ UNCHANGED <<players, numberOfCourts, error, variant, idKind,
                   played, available, pairsMade,
                   session, matchStates, playerStats, lastCompletedMatch,
                   uiRound, folds, undone, pre, searchVars>>

InitBalance ==
    /\ players \in MinRoster..MaxSchedPlayers
    /\ numberOfCourts \in Courts
    /\ variant = "balance"
    /\ idKind = "uuid"
    /\ currentRound = 1
    /\ hist = <<>>
    /\ error = FALSE
    /\ lastEvent = "start"
    /\ played = <<>>
    /\ returned = NotCalled
    /\ available = {}
    /\ pairsMade = <<>>
    /\ NoPage
    /\ SearchIdle

NextBalance ==
    \/ BalanceGenerateSession
    \/ BalanceNextRound

SpecBalance == InitBalance /\ [][NextBalance]_vars

\* The matches a player has played once the current round is completed.
MatchesPlayed(q) ==
    Cardinality({k \in DOMAIN (allCompletedMatches \o returned) :
                    q \in Range((allCompletedMatches \o returned)[k].players)})

\* C28: with every match of a round completed before the round is advanced,
\* the numbers of matches played by any two players of the roster differ by
\* at most 1 at every round boundary, for every roster size and court count
\* whose rounds are not empty.
C28_BalancedPlay ==
    (variant = "balance" /\ returned # NotCalled /\ returned # <<>>) =>
        \A q, r \in 1..players : MatchesPlayed(q) - MatchesPlayed(r) <= 1

C28_Witness ==
    /\ variant = "balance"
    /\ returned # NotCalled
    /\ returned # <<>>
    /\ currentRound > MaxSchedRounds
    /\ \E q, r \in 1..players :
           /\ MatchesPlayed(r) - MatchesPlayed(q) = 1
           /\ hist[q].gamesPlayed > hist[r].gamesPlayed

\* C29: in every state reached by handleMatchComplete, handleUndo and
\* handleRoundComplete, every match tagged with a round earlier than the
\* current round is marked completed: an undo never leaves a round that was
\* advanced past with a match that is not completed.
C29_EarlierRoundsCompleted ==
    \A k \in DOMAIN matchStates :
        matchStates[k].round < uiRound => matchStates[k].completed

\* The number of entries of allCompletedMatches that are the match.
TimesCompleted(match) ==
    Cardinality({k \in DOMAIN allCompletedMatches :
                    allCompletedMatches[k] = match})

\* The completed matches with the player that are (or are not) doubles.
CompletedCount(q, doubles) ==
    Cardinality({k \in DOMAIN matchStates :
                    /\ matchStates[k].completed
                    /\ q \in Range(matchStates[k].match.players)
                    /\ IsDoubles(matchStates[k].match) = doubles})

CompletedConsistent ==
    /\ \A k \in DOMAIN matchStates :
           TimesCompleted(matchStates[k].match)
               = IF matchStates[k].completed THEN 1 ELSE 0
    /\ \A k \in DOMAIN allCompletedMatches :
           \E j \in DOMAIN matchStates :
               matchStates[j].match = allCompletedMatches[k]
    /\ \A q \in DOMAIN playerStats :
           /\ playerStats[q].doublesMatchesPlayed = CompletedCount(q, TRUE)
           /\ playerStats[q].singlesMatchesPlayed = CompletedCount(q, FALSE)

\* C30: in every reachable state allCompletedMatches holds exactly the matches
\* whose state is completed, each once, and each player's doubles and singles
\* counts are the numbers of completed 4-player and non-4-player matches with
\* the player; completing a match that is already completed, and undoing with
\* no last completed match remembered, change nothing.
C30_CompletedMatchesConsistent ==
    [][/\ CompletedConsistent'
       /\ lastEvent' \in {"completeIgnored", "undoIgnored"} =>
              UNCHANGED <<session, matchStates, playerStats,
                          allCompletedMatches, lastCompletedMatch, uiRound,
                          currentRound, hist>>]_vars

\* In round 2 a completed match was undone, and handleUndo was called once
\* more with no last completed match remembered and a match still on record.
C30_Witness ==
    /\ lastEvent = "undoIgnored"
    /\ uiRound = 2
    /\ undone # {}
    /\ lastCompletedMatch = None
    /\ allCompletedMatches # <<>>
    /\ \E q \in DOMAIN playerStats : playerStats[q].doublesMatchesPlayed = 1

\* C31: every match a scheduler returns has a court number between 1 and
\* the numberOfCourts it was called with, and no two matches of a round share
\* a court, for every roster size from 4 to 8 and 1 or 2 courts.
C31_CourtsWithinSession ==
    (returned # NotCalled /\ players >= MinRoster) =>
        /\ \A k \in DOMAIN returned : returned[k].court \in 1..numberOfCourts
        /\ \A j, k \in DOMAIN returned :
               returned[j].court = returned[k].court => j = k

InRound(q, matches) ==
    \E k \in DOMAIN matches : q \in Range(matches[k].players)

PlayersInRound(matches) ==
    Cardinality(UNION {Range(matches[k].players) : k \in DOMAIN matches})

\* The round completed before the current one was generated.
PreviousRound ==
    SubSeq(allCompletedMatches,
           Len(allCompletedMatches) - Len(returned) + 1,
           Len(allCompletedMatches))

\* C32: in a session whose rounds are each completed and then advanced, and
\* whose roster is at most twice the number of players of a round, no roster
\* player sits out two consecutive rounds.
C32_NoStarvation ==
    (/\ variant = "balance"
     /\ lastEvent = "advance"
     /\ returned # <<>>
     /\ players <= 2 * PlayersInRound(returned)) =>
        \A q \in 1..players :
            InRound(q, returned) \/ InRound(q, PreviousRound)

\* C33: a generateSession call that fails validation (fewer than 4 players)
\* leaves the round counter and the player histories that exist as they
\* were before the call.
C33_RejectedSessionKeepsState ==
    [][lastEvent' \in {"sessionError", "otherSessionError"} =>
           /\ hist' = hist
           /\ currentRound' = currentRound]_vars

\* A call was rejected while a session was in its second round.
C33_Witness ==
    /\ lastEvent = "otherSessionError"
    /\ currentRound = 2
    /\ hist # <<>>
    /\ \E q \in DOMAIN hist : hist[q].gamesPlayed > 1

=============================================================================
